---- MODULE Spec2Model ----
\* Model of nas.cc: a dataset of int32 values with nulls marked both by a
\* sentinel (INT32_MIN) and by a validity bitmap, eleven summation kernels,
\* the timing harness task::run and the OpenMP parallel regions.
EXTENDS Integers, Sequences, FiniteSets, Bags, TLC

VARIABLES
  cfg,     \* config: seed, n, p, nthreads
  data,    \* input_data::data, indexed from 0
  namask,  \* input_data::namask, bytes indexed from 0
  pc,      \* position of the main thread
  task,    \* index of the task being run (task0 .. taskA = 0 .. 10)
  iter,    \* loop counter i of task::run
  times,   \* number of samples pushed onto task::run's `times`
  totals,  \* task::total of each task
  reads,   \* log of the reads of the latest run_once
  nth,     \* team size of the active parallel region (0: none)
  wpc,     \* position of each worker of the team
  wsub,    \* each worker's private subtotal / private reduction copy
  wseen,   \* each worker's log of reads
  live,    \* workers still running or with a merge pending
  z,       \* the warm-up block's shared int z
  wi,      \* warm-up: each worker's current loop index
  wtmp,    \* warm-up: the value of z a worker has loaded
  build,   \* how this build evaluates an int sum that overflows
  access   \* writes to shared variables in the active region: <<variable, worker, kind>>

vars == <<cfg, data, namask, pc, task, iter, times, totals, reads,
          nth, wpc, wsub, wseen, live, z, wi, wtmp, build, access>>

-----------------------------------------------------------------------------
\* Bounds of the model.

\* Largest element count n (two full groups of 8 plus a remainder).
MaxN == 17
\* Largest seed.
MaxSeed == 7
\* Largest requested worker count (--nthreads).
MaxThreads == 2
\* Iterations of the warm-up loop (10000 in the source, cut down here).
WarmupN == 2

\* Program constants.
n_iterations == 100
BatchSize == 8
DistLo == 0
DistHi == 100
INT32_MAX == 2147483647
NA == -INT32_MAX - 1

\* Probabilities and real draws are kept in tenths: 1 is 0.1 (the default
\* p), 10 is 1.0.
Ps == {0, 1, 5, 10}

-----------------------------------------------------------------------------
\* Arithmetic. int32 values are integers in [NA, INT32_MAX]. A 64-bit value
\* (the accumulator, or the exact value of an int32 expression) is a pair
\* <<hi, lo>> standing for hi * 2^31 + lo with 0 <= lo <= INT32_MAX, so that
\* sums of several sentinels are represented exactly.

B(c) == IF c THEN 1 ELSE 0

Wide(v) == IF v < 0 THEN <<-1, (v + INT32_MAX) + 1>> ELSE <<0, v>>

WAdd(a, b) ==
  IF a[2] > INT32_MAX - b[2]
  THEN <<a[1] + b[1] + 1, (a[2] - (INT32_MAX - b[2])) - 1>>
  ELSE <<a[1] + b[1], a[2] + b[2]>>

InInt32(w) == w[1] \in {-1, 0}

\* The int32 a 64-bit value converts to (value modulo 2^32).
Narrow(w) == IF w[1] % 2 = 0 THEN w[2] ELSE (w[2] - INT32_MAX) - 1

WZero == <<0, 0>>

\* (byte >> k) & 1
Bit(byte, k) == (byte \div (2^k)) % 2

\* The value of the int expression t[0] + t[1] + ... + t[7], evaluated left
\* to right. A prefix that leaves the int32 range is signed overflow, which
\* is undefined: the build either wraps it modulo 2^32 ("wrap") or forms the
\* sum in a wider register ("wide").
RECURSIVE SumPrefix(_, _)
SumPrefix(t, k) == IF k = 0 THEN Wide(t[0]) ELSE WAdd(SumPrefix(t, k - 1), Wide(t[k]))

OverflowOutcomes == {"wrap", "wide"}

IntSum8(t, mode) ==
  LET exact == SumPrefix(t, BatchSize - 1)
      ovf   == \E k \in 0..(BatchSize - 1) : ~InInt32(SumPrefix(t, k))
  IN IF ovf /\ mode = "wide" THEN exact ELSE Wide(Narrow(exact))

-----------------------------------------------------------------------------
\* The pseudo-random streams. std::mt19937 rng(seed) is abstracted to a
\* small linear congruential generator: what the model keeps of it is that
\* the stream is a fixed function of the seed, and that generate and
\* fill_nas each restart it from the same seed.
RECURSIVE Raw(_, _)
Raw(seed, k) ==
  IF k = 0 THEN (seed * 37 + 11) % 1009 ELSE (Raw(seed, k - 1) * 37 + 11) % 1009

\* std::uniform_int_distribution<T> dist(0, 100): the i-th draw
DistInt(seed, i) == DistLo + (Raw(seed, i) % (DistHi - DistLo + 1))

\* std::uniform_real_distribution<double> dist(0, 1): the i-th draw, one of
\* 0.0, 0.1, .. 0.9, in tenths
DistReal(seed, i) == (Raw(seed, i) \div 7) % 10

\* input_data::generate
generate(n, seed) == [i \in 0..(n - 1) |-> DistInt(seed, i)]

\* Faulty variant: the bit is picked with i & 3.
ClearBit_wrongbit(mask, i) ==
  [mask EXCEPT ![i \div 8] = @ - Bit(@, i % 4) * (2^(i % 4))]

\* namask[i/8] &= ~uint8_t(1 << (i & 7))
ClearBit(mask, i) ==
  [mask EXCEPT ![i \div 8] = @ - Bit(@, i % 8) * (2^(i % 8))]

\* Faulty variant: the comparison made inclusive.
DrawBelow_le(d, p) == d <= p

\* dist(rng) < p
DrawBelow(d, p) == d < p

\* The loop of input_data::fill_nas, from index i on.
RECURSIVE fill_nas_loop(_, _, _, _, _, _)
fill_nas_loop(i, n, p, seed, x, mask) ==
  IF i < n
  THEN IF DrawBelow(DistReal(seed, i), p)
       THEN fill_nas_loop(i + 1, n, p, seed, [x EXCEPT ![i] = NA], ClearBit(mask, i))
       ELSE fill_nas_loop(i + 1, n, p, seed, x, mask)
  ELSE [data |-> x, namask |-> mask]

\* namask.resize((n + 7) / 8, uint8_t(0xFF))
MaskSize(n) == (n + 7) \div 8

fill_nas(n, p, seed, x) ==
  fill_nas_loop(0, n, p, seed, x, [b \in 0..(MaskSize(n) - 1) |-> 255])

-----------------------------------------------------------------------------
\* The log of one run_once: which data elements and which parts of the
\* bitmap it read. Bags, so that a second read of the same place shows.
\*   xb    data indices read by a loop over groups of 8
\*   xc    data indices read by an element-by-element loop
\*   bytes bitmap bytes loaded and used whole
\*   bits  <<byte, bit, x>>: bit `bit` of byte `byte` multiplied with data[x]

EmptyLog == [xb |-> EmptyBag, xc |-> EmptyBag, bytes |-> EmptyBag, bits |-> EmptyBag]

LogJoin(a, b) ==
  [xb |-> a.xb (+) b.xb, xc |-> a.xc (+) b.xc,
   bytes |-> a.bytes (+) b.bytes, bits |-> a.bits (+) b.bits]

One(e) == SetToBag({e})

Group(x) == SetToBag(x..(x + BatchSize - 1))

\* The state of a kernel's loops: the accumulator, the pointer x (as an
\* offset into data) and the log.
Acc0(total) == [total |-> total, x |-> 0, log |-> EmptyLog]

\* Faulty variant: one group short when n is a multiple of 8.
NBatches_short(n) == (n - 1) \div BatchSize

\* const size_t nbatches = n / 8
NBatches(n) == n \div BatchSize

\* x[i] * (x[i] != NA)
SentinelTerm(v) == v * B(v # NA)

\* Faulty variant: the shift is one too far.
BitTerm_nextbit(v, mask, i) == v * Bit(mask[i \div 8], (i % 8) + 1)

\* val * ((valid_bitmap[i/8] >> (i & 7)) & 1)
BitTerm(v, mask, i) == v * Bit(mask[i \div 8], i % 8)

BitRead(i, x) == One(<<i \div 8, i % 8, x>>)

\* Faulty variant: the opposite bitmap convention (bit = 1 for NA values).
ByteTerms_inverted(d, x, valid_byte) ==
  [j \in 0..(BatchSize - 1) |-> d[x + j] * (1 - Bit(valid_byte, j))]

\* x[j] * ((valid_byte >> j) & 1), for j = 0..7
ByteTerms(d, x, valid_byte) == [j \in 0..(BatchSize - 1) |-> d[x + j] * Bit(valid_byte, j)]

ByteBits(i, x) == SetToBag({<<i, j, x + j>> : j \in 0..(BatchSize - 1)})

\* ---- sum_ignore_nulls::run_once
RECURSIVE sum_ignore_nulls_loop(_, _, _, _)
sum_ignore_nulls_loop(d, n, i, a) ==
  IF i < n
  THEN sum_ignore_nulls_loop(d, n, i + 1,
         [a EXCEPT !.total = WAdd(@, Wide(d[i])), !.log.xc = @ (+) One(i)])
  ELSE a

\* ---- sum_ignore_nulls_batched::run_once
RECURSIVE sum_ignore_nulls_batched_batches(_, _, _, _, _)
sum_ignore_nulls_batched_batches(d, batches, i, a, mode) ==
  IF i < batches
  THEN sum_ignore_nulls_batched_batches(d, batches, i + 1,
         [a EXCEPT !.total = WAdd(@, IntSum8([j \in 0..7 |-> d[a.x + j]], mode)),
                   !.log.xb = @ (+) Group(a.x),
                   !.x = @ + 8], mode)
  ELSE a

RECURSIVE sum_ignore_nulls_batched_rest(_, _, _, _)
sum_ignore_nulls_batched_rest(d, n, i, a) ==
  IF i < n
  THEN sum_ignore_nulls_batched_rest(d, n, i + 1,
         [a EXCEPT !.total = WAdd(@, Wide(d[a.x])),
                   !.log.xc = @ (+) One(a.x),
                   !.x = @ + 1])
  ELSE a

\* ---- sum_sentinel_nulls_if::run_once
RECURSIVE sum_sentinel_nulls_if_loop(_, _, _, _)
sum_sentinel_nulls_if_loop(d, n, i, a) ==
  IF i < n
  THEN sum_sentinel_nulls_if_loop(d, n, i + 1,
         [a EXCEPT !.total = IF d[i] # NA THEN WAdd(@, Wide(d[i])) ELSE @,
                   !.log.xc = @ (+) One(i)])
  ELSE a

\* ---- sum_sentinel_nulls_mul::run_once
RECURSIVE sum_sentinel_nulls_mul_loop(_, _, _, _)
sum_sentinel_nulls_mul_loop(d, n, i, a) ==
  IF i < n
  THEN sum_sentinel_nulls_mul_loop(d, n, i + 1,
         [a EXCEPT !.total = WAdd(@, Wide(SentinelTerm(d[i]))),
                   !.log.xc = @ (+) One(i)])
  ELSE a

\* ---- sum_sentinel_nulls_batched::run_once
RECURSIVE sum_sentinel_nulls_batched_batches(_, _, _, _, _)
sum_sentinel_nulls_batched_batches(d, nbatches, i, a, mode) ==
  IF i < nbatches
  THEN sum_sentinel_nulls_batched_batches(d, nbatches, i + 1,
         [a EXCEPT !.total = WAdd(@, IntSum8([j \in 0..7 |-> SentinelTerm(d[a.x + j])], mode)),
                   !.log.xb = @ (+) Group(a.x),
                   !.x = @ + 8], mode)
  ELSE a

RECURSIVE sum_sentinel_nulls_batched_rest(_, _, _, _)
sum_sentinel_nulls_batched_rest(d, n, i, a) ==
  IF i < n
  THEN sum_sentinel_nulls_batched_rest(d, n, i + 1,
         [a EXCEPT !.total = WAdd(@, Wide(SentinelTerm(d[a.x]))),
                   !.log.xc = @ (+) One(a.x),
                   !.x = @ + 1])
  ELSE a

\* ---- sum_bitmask_nulls::run_once
RECURSIVE sum_bitmask_nulls_loop(_, _, _, _, _)
sum_bitmask_nulls_loop(d, mask, n, i, a) ==
  IF i < n
  THEN sum_bitmask_nulls_loop(d, mask, n, i + 1,
         [a EXCEPT !.total = WAdd(@, Wide(BitTerm(d[i], mask, i))),
                   !.log.xc = @ (+) One(i),
                   !.log.bits = @ (+) BitRead(i, i)])
  ELSE a

\* ---- sum_bitmask_nulls_batched::run_once
RECURSIVE sum_bitmask_nulls_batched_batches(_, _, _, _, _, _)
sum_bitmask_nulls_batched_batches(d, mask, nbatches, i, a, mode) ==
  IF i < nbatches
  THEN sum_bitmask_nulls_batched_batches(d, mask, nbatches, i + 1,
         [a EXCEPT !.total = WAdd(@, IntSum8(ByteTerms(d, a.x, mask[i]), mode)),
                   !.log.xb = @ (+) Group(a.x),
                   !.log.bytes = @ (+) One(i),
                   !.log.bits = @ (+) ByteBits(i, a.x),
                   !.x = @ + 8], mode)
  ELSE a

\* The cleanup loop shared, statement for statement, by
\* sum_bitmask_nulls_batched and sum_bitmask_nulls_shortcut.
RECURSIVE sum_bitmask_nulls_rest(_, _, _, _, _)
sum_bitmask_nulls_rest(d, mask, n, i, a) ==
  IF i < n
  THEN sum_bitmask_nulls_rest(d, mask, n, i + 1,
         [a EXCEPT !.total = WAdd(@, Wide(BitTerm(d[a.x], mask, i))),
                   !.log.xc = @ (+) One(a.x),
                   !.log.bits = @ (+) BitRead(i, a.x),
                   !.x = @ + 1])
  ELSE a

\* ---- sum_bitmask_nulls_shortcut::run_once
RECURSIVE sum_bitmask_nulls_shortcut_batches(_, _, _, _, _, _)
sum_bitmask_nulls_shortcut_batches(d, mask, nbatches, i, a, mode) ==
  IF i < nbatches
  THEN sum_bitmask_nulls_shortcut_batches(d, mask, nbatches, i + 1,
         IF mask[i] = 255
         THEN [a EXCEPT !.total = WAdd(@, IntSum8([j \in 0..7 |-> d[a.x + j]], mode)),
                        !.log.xb = @ (+) Group(a.x),
                        !.log.bytes = @ (+) One(i),
                        !.x = @ + 8]
         ELSE [a EXCEPT !.total = WAdd(@, IntSum8(ByteTerms(d, a.x, mask[i]), mode)),
                        !.log.xb = @ (+) Group(a.x),
                        !.log.bytes = @ (+) One(i),
                        !.log.bits = @ (+) ByteBits(i, a.x),
                        !.x = @ + 8], mode)
  ELSE a


\* Faulty variant: the stride is 1 instead of the team size.
RECURSIVE sum_sentinel_nulls_omp1_loop_stride1(_, _, _, _, _)
sum_sentinel_nulls_omp1_loop_stride1(d, n, step, i, a) ==
  IF i < n
  THEN sum_sentinel_nulls_omp1_loop_stride1(d, n, step, i + 1,
         [a EXCEPT !.total = WAdd(@, Wide(SentinelTerm(d[i]))),
                   !.log.xc = @ (+) One(i)])
  ELSE a

\* ---- sum_sentinel_nulls_omp1::run_once, the body of the parallel region
\* for (size_t i = ith; i < n; i += nth) subtotal += x[i] * (x[i] != NA)
RECURSIVE sum_sentinel_nulls_omp1_loop(_, _, _, _, _)
sum_sentinel_nulls_omp1_loop(d, n, step, i, a) ==
  IF i < n
  THEN sum_sentinel_nulls_omp1_loop(d, n, step, i + step,
         [a EXCEPT !.total = WAdd(@, Wide(SentinelTerm(d[i]))),
                   !.log.xc = @ (+) One(i)])
  ELSE a

\* The iterations [0, count) of an `omp parallel for` loop that thread ith
\* of a team of size executes (static schedule: contiguous chunks, the first
\* count % size threads taking one more).
ChunkLo(ith, size, count) ==
  LET q == count \div size
      r == count % size
  IN IF ith < r THEN ith * (q + 1) ELSE r * (q + 1) + (ith - r) * q

ChunkHi(ith, size, count) == ChunkLo(ith + 1, size, count)

\* ---- sum_sentinel_nulls_omp2::run_once, one thread's share of the loop,
\* accumulated in its private copy of total.
RECURSIVE sum_sentinel_nulls_omp2_loop(_, _, _, _)
sum_sentinel_nulls_omp2_loop(d, hi, i, a) ==
  IF i < hi
  THEN sum_sentinel_nulls_omp2_loop(d, hi, i + 1,
         [a EXCEPT !.total = WAdd(@, Wide(SentinelTerm(d[i]))),
                   !.log.xc = @ (+) One(i)])
  ELSE a

\* ---- sum_bitmask_nulls_omp2::run_once, one thread's share of the batch
\* loop: const T* xx = x + (i << 3)
RECURSIVE sum_bitmask_nulls_omp2_batches(_, _, _, _, _, _)
sum_bitmask_nulls_omp2_batches(d, mask, hi, i, a, mode) ==
  IF i < hi
  THEN sum_bitmask_nulls_omp2_batches(d, mask, hi, i + 1,
         [a EXCEPT !.total = WAdd(@, IntSum8(ByteTerms(d, i * 8, mask[i]), mode)),
                   !.log.xb = @ (+) Group(i * 8),
                   !.log.bytes = @ (+) One(i),
                   !.log.bits = @ (+) ByteBits(i, i * 8)], mode)
  ELSE a

\* ... and its sequential remainder loop.
RECURSIVE sum_bitmask_nulls_omp2_rest(_, _, _, _, _)
sum_bitmask_nulls_omp2_rest(d, mask, n, i, a) ==
  IF i < n
  THEN sum_bitmask_nulls_omp2_rest(d, mask, n, i + 1,
         [a EXCEPT !.total = WAdd(@, Wide(BitTerm(d[i], mask, i))),
                   !.log.xc = @ (+) One(i),
                   !.log.bits = @ (+) BitRead(i, i)])
  ELSE a

-----------------------------------------------------------------------------
\* The tasks of main, in the order main runs them.
Tasks == 0..10
NoTeam == << >>

Configs(ns, seeds) == [seed : seeds, n : ns, p : Ps, nthreads : 1..MaxThreads]

InitWith(cs) ==
  /\ cfg \in cs
  /\ build \in OverflowOutcomes
  /\ data = << >>
  /\ namask = << >>
  /\ pc = "start"
  /\ task = 0
  /\ iter = 0
  /\ times = 0
  /\ totals = [k \in Tasks |-> WZero]
  /\ reads = EmptyLog
  /\ nth = 0
  /\ wpc = NoTeam
  /\ wsub = NoTeam
  /\ wseen = NoTeam
  /\ live = {}
  /\ z = 0
  /\ wi = NoTeam
  /\ wtmp = NoTeam
  /\ access = {}

team == <<nth, wpc, wsub, wseen, live, z, wi, wtmp, access>>
harness == <<task, iter, times>>

\* data.generate(cfg.seed)
Generate ==
  /\ pc = "start"
  /\ data' = generate(cfg.n, cfg.seed)
  /\ pc' = "generated"
  /\ UNCHANGED <<cfg, build, namask, totals, reads, harness, team>>

\* data.fill_nas(cfg.p, cfg.seed)
FillNas ==
  /\ pc = "generated"
  /\ LET r == fill_nas(cfg.n, cfg.p, cfg.seed, data)
     IN /\ data' = r.data
        /\ namask' = r.namask
  /\ pc' = "filled"
  /\ UNCHANGED <<cfg, build, totals, reads, harness, team>>

\* A sequential run_once returning: the accumulator and the log it leaves.
Return(a) ==
  /\ totals' = [totals EXCEPT ![task] = a.total]
  /\ reads' = a.log
  /\ pc' = "ret"
  /\ UNCHANGED <<cfg, build, data, namask, harness, team>>

Called(k) == pc = "call" /\ task = k

sum_ignore_nulls ==
  /\ Called(0)
  /\ Return(sum_ignore_nulls_loop(data, cfg.n, 0, Acc0(totals[0])))

sum_ignore_nulls_batched ==
  /\ Called(1)
  /\ LET batches == cfg.n \div 8
         a == sum_ignore_nulls_batched_batches(data, batches, 0, Acc0(totals[1]), build)
     IN Return(sum_ignore_nulls_batched_rest(data, cfg.n, batches * 8, a))

sum_sentinel_nulls_if ==
  /\ Called(2)
  /\ Return(sum_sentinel_nulls_if_loop(data, cfg.n, 0, Acc0(totals[2])))

sum_sentinel_nulls_mul ==
  /\ Called(3)
  /\ Return(sum_sentinel_nulls_mul_loop(data, cfg.n, 0, Acc0(totals[3])))

sum_sentinel_nulls_batched ==
  /\ Called(4)
  /\ LET nbatches == NBatches(cfg.n)
         a == sum_sentinel_nulls_batched_batches(data, nbatches, 0, Acc0(totals[4]), build)
     IN Return(sum_sentinel_nulls_batched_rest(data, cfg.n, nbatches * 8, a))

sum_bitmask_nulls ==
  /\ Called(5)
  /\ Return(sum_bitmask_nulls_loop(data, namask, cfg.n, 0, Acc0(totals[5])))

sum_bitmask_nulls_batched ==
  /\ Called(6)
  /\ LET nbatches == NBatches(cfg.n)
         a == sum_bitmask_nulls_batched_batches(data, namask, nbatches, 0, Acc0(totals[6]), build)
     IN Return(sum_bitmask_nulls_rest(data, namask, cfg.n, nbatches * 8, a))

sum_bitmask_nulls_shortcut ==
  /\ Called(7)
  /\ LET nbatches == NBatches(cfg.n)
         a == sum_bitmask_nulls_shortcut_batches(data, namask, nbatches, 0, Acc0(totals[7]), build)
     IN Return(sum_bitmask_nulls_rest(data, namask, cfg.n, nbatches * 8, a))

-----------------------------------------------------------------------------
\* Parallel regions.

Workers == 0..(nth - 1)

\* Entry of a parallel region with num_threads(cfg.nthreads): the runtime
\* grants a team of 1..nthreads threads.
Fork(first) ==
  \E g \in 1..cfg.nthreads :
    /\ nth' = g
    /\ wpc' = [w \in 0..(g - 1) |-> first]
    /\ wsub' = [w \in 0..(g - 1) |-> WZero]
    /\ wseen' = [w \in 0..(g - 1) |-> EmptyLog]
    /\ live' = 0..(g - 1)
    /\ access' = {}

\* Faulty variant: the region ends as soon as one thread has left its body.
AllDone_any == \E w \in 0..(nth - 1) : w \notin live

\* The barrier at the end of a parallel region: every thread of the team
\* has left the region's body.
AllDone == live = {}

Disband ==
  /\ nth' = 0
  /\ wpc' = NoTeam
  /\ wsub' = NoTeam
  /\ wseen' = NoTeam
  /\ wi' = NoTeam
  /\ wtmp' = NoTeam
  /\ access' = {}

RECURSIVE JoinLogs(_, _)
JoinLogs(logs, k) == IF k = 0 THEN EmptyLog ELSE LogJoin(JoinLogs(logs, k - 1), logs[k - 1])

\* #pragma omp parallel / parallel for, in the three parallel kernels
RegionBegin ==
  /\ pc = "call"
  /\ task \in {8, 9, 10}
  /\ Fork("loop")
  /\ reads' = EmptyLog
  /\ pc' = "par"
  /\ UNCHANGED <<cfg, build, data, namask, totals, harness, z, wi, wtmp>>

Looped(w, a) ==
  /\ wsub' = [wsub EXCEPT ![w] = a.total]
  /\ wseen' = [wseen EXCEPT ![w] = a.log]
  /\ wpc' = [wpc EXCEPT ![w] = "merge"]
  /\ UNCHANGED <<cfg, build, data, namask, pc, totals, reads, harness, nth, live, z, wi, wtmp, access>>

InLoop(w, k) == pc = "par" /\ task = k /\ w \in Workers /\ wpc[w] = "loop"

sum_sentinel_nulls_omp1_worker(w) ==
  /\ InLoop(w, 8)
  /\ Looped(w, sum_sentinel_nulls_omp1_loop(data, cfg.n, nth, w, Acc0(WZero)))

sum_sentinel_nulls_omp2_worker(w) ==
  /\ InLoop(w, 9)
  /\ Looped(w, sum_sentinel_nulls_omp2_loop(data, ChunkHi(w, nth, cfg.n),
                                            ChunkLo(w, nth, cfg.n), Acc0(WZero)))

sum_bitmask_nulls_omp2_worker(w) ==
  /\ InLoop(w, 10)
  /\ Looped(w, sum_bitmask_nulls_omp2_batches(data, namask,
                 ChunkHi(w, nth, NBatches(cfg.n)), ChunkLo(w, nth, NBatches(cfg.n)),
                 Acc0(WZero), build))

\* How each parallel kernel merges a thread's partial sum into total:
\* `#pragma omp atomic update` in omp1, the reduction clause in the others.
MergeKind(k) == IF k = 8 THEN "atomic" ELSE "reduction"

\* total += subtotal, as one indivisible update
Merge(w) ==
  /\ pc = "par"
  /\ w \in Workers
  /\ wpc[w] = "merge"
  /\ totals' = [totals EXCEPT ![task] = WAdd(@, wsub[w])]
  /\ access' = access \cup {<<"total", w, MergeKind(task)>>}
  /\ wpc' = [wpc EXCEPT ![w] = "done"]
  /\ live' = live \ {w}
  /\ UNCHANGED <<cfg, build, data, namask, pc, reads, harness, nth, wsub, wseen, z, wi, wtmp>>

\* End of the region: run_once of omp1 and omp2 returns,
\* sum_bitmask_nulls_omp2 goes on to its remainder loop.
RegionEnd ==
  /\ pc = "par"
  /\ AllDone
  /\ reads' = JoinLogs(wseen, nth)
  /\ pc' = IF task = 10 THEN "rem" ELSE "ret"
  /\ Disband
  /\ UNCHANGED <<cfg, build, data, namask, totals, harness, z, live>>

sum_bitmask_nulls_omp2_remainder ==
  /\ pc = "rem"
  /\ LET a == sum_bitmask_nulls_omp2_rest(data, namask, cfg.n, NBatches(cfg.n) * 8,
                                          [total |-> totals[task], x |-> 0, log |-> reads])
     IN Return(a)

-----------------------------------------------------------------------------
\* Each kernel's run_once applied once to a freshly constructed task, in the
\* order in which main constructs the tasks.

Init == InitWith(Configs(1..MaxN, 0..MaxSeed))

StartKernels ==
  /\ pc = "filled"
  /\ pc' = "call"
  /\ UNCHANGED <<cfg, build, data, namask, totals, reads, harness, team>>

NextKernel ==
  /\ pc = "ret"
  /\ IF task < 10
     THEN task' = task + 1 /\ pc' = "call"
     ELSE task' = task /\ pc' = "done"
  /\ UNCHANGED <<cfg, build, data, namask, totals, reads, iter, times, team>>

Kernels ==
  \/ sum_ignore_nulls
  \/ sum_ignore_nulls_batched
  \/ sum_sentinel_nulls_if
  \/ sum_sentinel_nulls_mul
  \/ sum_sentinel_nulls_batched
  \/ sum_bitmask_nulls
  \/ sum_bitmask_nulls_batched
  \/ sum_bitmask_nulls_shortcut
  \/ RegionBegin
  \/ \E w \in 0..(MaxThreads - 1) : sum_sentinel_nulls_omp1_worker(w)
  \/ \E w \in 0..(MaxThreads - 1) : sum_sentinel_nulls_omp2_worker(w)
  \/ \E w \in 0..(MaxThreads - 1) : sum_bitmask_nulls_omp2_worker(w)
  \/ \E w \in 0..(MaxThreads - 1) : Merge(w)
  \/ RegionEnd
  \/ sum_bitmask_nulls_omp2_remainder

Next ==
  \/ Generate
  \/ FillNas
  \/ StartKernels
  \/ Kernels
  \/ NextKernel

Spec == Init /\ [][Next]_vars

-----------------------------------------------------------------------------
\* main: the warm-up block, then task0.run(data) .. taskA.run(data).

\* Seeds and sizes of the runs of the whole program (seed 1 is the default).
MainSeeds == {1, 4}
MainNs == {1, MaxN}

InitMain == InitWith({c \in Configs(MainNs, MainSeeds) : c.nthreads = MaxThreads})

\* #pragma omp parallel for num_threads(t), over [0, 10000): int z is
\* declared outside the region and named in no clause, so it is shared.
WarmUpBegin ==
  /\ pc = "filled"
  /\ Fork("load")
  /\ wi' = [w \in 0..(nth' - 1) |-> ChunkLo(w, nth', WarmupN)]
  /\ wtmp' = [w \in 0..(nth' - 1) |-> 0]
  /\ z' = 0
  /\ pc' = "warm"
  /\ UNCHANGED <<cfg, build, data, namask, totals, reads, harness>>

InWarmUp(w, at) == pc = "warm" /\ w \in Workers /\ wpc[w] = at

\* A thread with no iteration left leaves the loop.
WarmUpExit(w) ==
  /\ InWarmUp(w, "load")
  /\ ~(wi[w] < ChunkHi(w, nth, WarmupN))
  /\ wpc' = [wpc EXCEPT ![w] = "done"]
  /\ live' = live \ {w}
  /\ UNCHANGED <<cfg, build, data, namask, pc, totals, reads, harness, nth, wsub, wseen, z, wi, wtmp, access>>

\* z += i is a plain load of z ...
WarmUpLoad(w) ==
  /\ InWarmUp(w, "load")
  /\ wi[w] < ChunkHi(w, nth, WarmupN)
  /\ wtmp' = [wtmp EXCEPT ![w] = z]
  /\ wpc' = [wpc EXCEPT ![w] = "store"]
  /\ UNCHANGED <<cfg, build, data, namask, pc, totals, reads, harness, nth, wsub, wseen, live, z, wi, access>>

\* ... followed by a plain store of the sum.
WarmUpStore(w) ==
  /\ InWarmUp(w, "store")
  /\ z' = wtmp[w] + wi[w]
  /\ wi' = [wi EXCEPT ![w] = @ + 1]
  /\ access' = access \cup {<<"z", w, "plain">>}
  /\ wpc' = [wpc EXCEPT ![w] = "load"]
  /\ UNCHANGED <<cfg, build, data, namask, pc, totals, reads, harness, nth, wsub, wseen, live, wtmp>>

\* End of the warm-up region; z goes out of scope and task0.run begins.
WarmUpEnd ==
  /\ pc = "warm"
  /\ AllDone
  /\ Disband
  /\ z' = 0
  /\ pc' = "loop"
  /\ UNCHANGED <<cfg, build, data, namask, totals, reads, harness, live>>

\* Faulty variant: the loop bound made inclusive.
LoopCond_inclusive(i) == i <= n_iterations

\* task::run: for (int i = 0; i < n_iterations; ++i)
LoopCond(i) == i < n_iterations

\* ... time0 is taken and run_once is called
RunIter ==
  /\ pc = "loop"
  /\ LoopCond(iter)
  /\ pc' = "call"
  /\ UNCHANGED <<cfg, build, data, namask, totals, reads, harness, team>>

\* ... time1 is taken and the sample pushed
RunTime1 ==
  /\ pc = "ret"
  /\ times' = times + 1
  /\ iter' = iter + 1
  /\ pc' = "loop"
  /\ UNCHANGED <<cfg, build, data, namask, totals, reads, task, team>>

\* ... the report is printed, run returns and main runs the next task
RunReturn ==
  /\ pc = "loop"
  /\ ~LoopCond(iter)
  /\ iter' = 0
  /\ times' = 0
  /\ IF task < 10
     THEN task' = task + 1 /\ pc' = "loop"
     ELSE task' = task /\ pc' = "done"
  /\ UNCHANGED <<cfg, build, data, namask, totals, reads, team>>

NextMain ==
  \/ Generate
  \/ FillNas
  \/ WarmUpBegin
  \/ \E w \in 0..(MaxThreads - 1) : WarmUpLoad(w)
  \/ \E w \in 0..(MaxThreads - 1) : WarmUpStore(w)
  \/ \E w \in 0..(MaxThreads - 1) : WarmUpExit(w)
  \/ WarmUpEnd
  \/ RunIter
  \/ Kernels
  \/ RunTime1
  \/ RunReturn

SpecMain == InitMain /\ [][NextMain]_vars

-----------------------------------------------------------------------------
\* Reference definitions for the properties: the null pattern and the true
\* sum, taken from the draws and not from data or namask.

IsNull(i) == DistReal(cfg.seed, i) < cfg.p

RECURSIVE TrueSumTo(_)
TrueSumTo(k) ==
  IF k = 0 THEN 0
  ELSE TrueSumTo(k - 1) + (IF IsNull(k - 1) THEN 0 ELSE DistInt(cfg.seed, k - 1))

TrueSum == TrueSumTo(cfg.n)

Indices == 0..(cfg.n - 1)
Filled == pc \notin {"start", "generated"}
SomeNull == \E i \in Indices : IsNull(i)
SomeValid == \E i \in Indices : ~IsNull(i)
Ragged == cfg.n > 8 /\ cfg.n % 8 # 0

NullAware == 2..10
Unrolled == {1, 4, 6, 7, 10}
BitmapKernels == {5, 6, 7, 10}

\* Under Spec: run_once of task k has just returned.
Returned(k) == task = k /\ pc = "ret"

\* C1: after one run_once from total = 0, each of the nine null-aware
\* kernels holds the sum of the generated values at the indices whose draw
\* was not below p, so all nine agree.
C1_CrossKernelAgreement ==
  /\ \A k \in NullAware : Returned(k) => totals[k] = <<0, TrueSum>>
  /\ pc = "done" => \A k \in NullAware : totals[k] = totals[2]

C1_Witness ==
  /\ pc = "done"
  /\ Ragged /\ SomeNull /\ SomeValid
  /\ cfg.nthreads >= 2
  /\ TrueSum > 0
  /\ \A k \in NullAware : totals[k] = <<0, TrueSum>>

\* C2: in sum_sentinel_nulls_omp1, worker ith of a team of nth visits exactly
\* the indices congruent to ith modulo nth, each once; total holds the
\* subtotals of exactly the workers that have merged; and when run_once
\* returns total has grown by the sequential branchless sentinel sum.
RECURSIVE MergedSum(_)
MergedSum(k) ==
  IF k = 0 THEN WZero
  ELSE IF wpc[k - 1] = "done" THEN WAdd(MergedSum(k - 1), wsub[k - 1]) ELSE MergedSum(k - 1)

C2_StridesAndMerge ==
  /\ (pc = "par" /\ task = 8) =>
       /\ \A w \in Workers : wpc[w] # "loop" =>
            wseen[w].xc = SetToBag({i \in Indices : i % nth = w})
       /\ totals[8] = MergedSum(nth)
  /\ (pc = "ret" /\ task = 8) =>
       /\ reads.xc = SetToBag(Indices)
       /\ totals[8] = sum_sentinel_nulls_mul_loop(data, cfg.n, 0, Acc0(WZero)).total

\* A team larger than n: worker 1 has an empty stride and has merged first,
\* worker 0 still holds its non-zero subtotal.
C2_Witness ==
  /\ pc = "par" /\ task = 8
  /\ nth > cfg.n
  /\ wpc[1] = "done" /\ wseen[1].xc = EmptyBag
  /\ wpc[0] = "merge" /\ wsub[0] # WZero

\* C3 (as claimed): in every parallel region the accumulator is the only
\* variable written by more than one worker, every such write is atomic or
\* reduction-combined, and no two workers are at the same time in the middle
\* of an unsynchronised read-modify-write.
C3_OnlySynchronisedSharedWrites ==
  /\ \A a \in access : \A b \in access :
       (a[1] = b[1] /\ a[2] # b[2]) => (a[1] = "total" /\ a[3] # "plain" /\ b[3] # "plain")
  /\ \A v \in Workers : \A w \in Workers :
       v # w => ~(wpc[v] = "store" /\ wpc[w] = "store")

\* C4: task::run calls run_once exactly n_iterations = 100 times and never
\* resets total: after iter calls a null-aware kernel's total is iter times
\* the true sum, and 100 times the true sum once run has returned.
C4_HundredIterations ==
  /\ (task \in NullAware /\ pc = "loop") =>
       (iter <= 100 /\ times = iter /\ totals[task] = <<0, iter * TrueSum>>)
  /\ (task \in NullAware /\ pc = "loop" /\ ~ENABLED RunIter) => iter = 100
  /\ pc = "done" => \A k \in NullAware : totals[k] = <<0, 100 * TrueSum>>

C4_Witness ==
  /\ pc = "done"
  /\ Ragged /\ SomeNull /\ TrueSum > 0
  /\ totals[10] = <<0, 100 * TrueSum>>

\* C5: after generate and fill_nas, namask has ceil(n/8) bytes, and for every
\* index the validity bit is 0 iff data holds the sentinel iff the draw was
\* below p; an index not marked null keeps its generated value in [0, 100].
C5_EncodingsAgree ==
  pc = "filled" =>
    /\ DOMAIN namask = 0..((cfg.n \div 8) + B(cfg.n % 8 # 0) - 1)
    /\ DOMAIN data = Indices
    /\ \A i \in Indices :
         /\ (Bit(namask[i \div 8], i % 8) = 0) <=> IsNull(i)
         /\ (data[i] = NA) <=> IsNull(i)
         /\ ~IsNull(i) => (data[i] = DistInt(cfg.seed, i) /\ data[i] \in 0..100)

C5_Witness ==
  /\ pc = "filled"
  /\ Ragged /\ SomeNull /\ SomeValid
  /\ \E i \in Indices : DistReal(cfg.seed, i) = cfg.p

\* C6: one run_once of an unrolled kernel reads every index of [0, n) exactly
\* once: the loop over groups reads exactly [0, 8*floor(n/8)), the cleanup
\* loop exactly [8*floor(n/8), n), and every validity bit that is used is
\* the bit of the element it is multiplied with.
C6_RemainderBoundary ==
  \A k \in Unrolled :
    (task = k /\ pc = "ret") =>
      LET full == 8 * (cfg.n \div 8)
      IN /\ reads.xb = SetToBag(0..(full - 1))
         /\ reads.xc = SetToBag(full..(cfg.n - 1))
         /\ \A e \in BagToSet(reads.bits) : e[3] = 8 * e[1] + e[2]
         /\ k \in BitmapKernels =>
              \A i \in full..(cfg.n - 1) : CopiesIn(<<i \div 8, i % 8, i>>, reads.bits) = 1

C6_Witness ==
  /\ task = 7 /\ pc = "ret"
  /\ Ragged
  /\ reads.xb # EmptyBag /\ reads.xc # EmptyBag /\ reads.bits # EmptyBag

\* C7: with p = 0 no index is marked null and every null-aware kernel's
\* total equals that of sum_ignore_nulls and of sum_ignore_nulls_batched;
\* with p = 1 every index is marked null and every null-aware total is 0.
C7_DegenerateProbabilities ==
  /\ (cfg.p = 0 /\ pc = "filled") =>
       /\ \A i \in Indices : data[i] = DistInt(cfg.seed, i)
       /\ \A b \in DOMAIN namask : namask[b] = 255
  /\ (cfg.p = 0 /\ Filled) =>
       \A k \in NullAware : Returned(k) => (totals[k] = totals[0] /\ totals[k] = totals[1])
  /\ (cfg.p = 10 /\ pc = "filled") =>
       \A i \in Indices : data[i] = NA /\ Bit(namask[i \div 8], i % 8) = 0
  /\ (cfg.p = 10 /\ Filled) =>
       \A k \in NullAware : Returned(k) => totals[k] = WZero

C7_Witness ==
  /\ pc = "done"
  /\ cfg.p = 0
  /\ Ragged
  /\ \E i \in Indices : DistReal(cfg.seed, i) = 0
  /\ totals[10] = totals[0] /\ totals[0] # WZero

\* C8 (as claimed): one run_once of sum_ignore_nulls_batched adds the same
\* value as one run_once of sum_ignore_nulls, the exact sum of all values,
\* sentinels included.
C8_BatchedEqualsPlain ==
  Returned(1) => totals[1] = totals[0]

\* The result of a bitmap kernel as a function of the dataset, for a team of
\* g threads where the kernel is parallel.
RECURSIVE Omp2BatchSum(_, _, _, _, _)
Omp2BatchSum(d, mask, n, g, k) ==
  IF k = 0 THEN WZero
  ELSE WAdd(Omp2BatchSum(d, mask, n, g, k - 1),
            sum_bitmask_nulls_omp2_batches(d, mask, ChunkHi(k - 1, g, NBatches(n)),
              ChunkLo(k - 1, g, NBatches(n)), Acc0(WZero), build).total)

BitmapResult(k, d, mask, n, g) ==
  CASE k = 5 -> sum_bitmask_nulls_loop(d, mask, n, 0, Acc0(WZero)).total
    [] k = 6 -> sum_bitmask_nulls_rest(d, mask, n, NBatches(n) * 8,
                  sum_bitmask_nulls_batched_batches(d, mask, NBatches(n), 0, Acc0(WZero), build)).total
    [] k = 7 -> sum_bitmask_nulls_rest(d, mask, n, NBatches(n) * 8,
                  sum_bitmask_nulls_shortcut_batches(d, mask, NBatches(n), 0, Acc0(WZero), build)).total
    [] k = 10 -> sum_bitmask_nulls_omp2_rest(d, mask, n, NBatches(n) * 8,
                  [total |-> Omp2BatchSum(d, mask, n, g, g), x |-> 0, log |-> EmptyLog]).total

\* namask with the padding bits of its last byte set to `pad`.
WithPadding(mask, n, pad) ==
  IF n % 8 = 0 THEN mask
  ELSE [mask EXCEPT ![n \div 8] = (@ % (2^(n % 8))) + pad * (2^(n % 8))]

Paddings(n) == IF n % 8 = 0 THEN {0} ELSE 0..(2^(8 - (n % 8)) - 1)

LogInBounds(log) ==
  /\ \A b \in BagToSet(log.bytes) : b < cfg.n \div 8
  /\ \A e \in BagToSet(log.bits) : 8 * e[1] + e[2] < cfg.n /\ e[2] \in 0..7

\* C9: no bitmap kernel uses a validity bit at a position >= n or a whole
\* bitmap byte at an index >= floor(n/8), and its result is the same for
\* every content of the padding bits (for every team size up to the largest
\* requested one, so the datasets are taken where nthreads is largest).
C9_PaddingNeverRead ==
  /\ \A k \in BitmapKernels : (task = k /\ pc \in {"ret", "rem"}) => LogInBounds(reads)
  /\ (task = 10 /\ pc = "par") => \A w \in Workers : LogInBounds(wseen[w])
  /\ (pc = "filled" /\ cfg.nthreads = MaxThreads) =>
       \A k \in BitmapKernels : \A g \in 1..(IF k = 10 THEN cfg.nthreads ELSE 1) :
         LET r == BitmapResult(k, data, namask, cfg.n, g)
         IN \A pad \in Paddings(cfg.n) :
              BitmapResult(k, data, WithPadding(namask, cfg.n, pad), cfg.n, g) = r

C9_Witness ==
  /\ task = 7 /\ pc = "ret"
  /\ Ragged /\ SomeValid
  /\ \E b \in BagToSet(reads.bytes) : namask[b] = 255
  /\ \E e \in BagToSet(reads.bits) : e[1] = cfg.n \div 8
  /\ namask[cfg.n \div 8] >= 2^(cfg.n % 8)

\* C10: outside a parallel region no worker is running or has a merge
\* pending; when a parallel kernel's run_once returns, in iteration iter of
\* task::run, every partial sum of that iteration is in total; and the
\* remainder loop of sum_bitmask_nulls_omp2 starts with every partial sum of
\* the groups in total.
C10_BarrierAtRegionEnd ==
  /\ pc \in {"ret", "rem", "loop", "call", "done"} => live = {}
  /\ (pc = "ret" /\ task \in {8, 9, 10}) => totals[task] = <<0, (iter + 1) * TrueSum>>
  /\ (pc = "rem") => totals[10] = <<0, iter * TrueSum + TrueSumTo(8 * (cfg.n \div 8))>>

C10_Witness ==
  /\ pc = "rem"
  /\ iter >= 1
  /\ cfg.nthreads >= 2
  /\ Ragged
  /\ TrueSumTo(16) > TrueSumTo(8) /\ TrueSumTo(8) > 0 /\ TrueSum > TrueSumTo(16)

====
